---------------------------- MODULE Spec2Model ----------------------------
(***************************************************************************)
(* A model of the google-maps-scraper service: the key-value store of      *)
(* src/db.js (local JSON-file backend and the delegating remote backend)   *)
(* and the request handlers of src/server.js built on it.                  *)
(*                                                                         *)
(* Strings whose content the code inspects (keys, prefixes, form fields,   *)
(* error messages) are sequences of one-character strings, so that         *)
(* startsWith, trim and includes are computed rather than assumed.         *)
(***************************************************************************)
EXTENDS Integers, Sequences, FiniteSets, TLC

VARIABLES
  replitDb,   \* db.js:7-19   TRUE iff the Replit Database client is in use
  data,       \* db.js:24     LocalDb.data, an insertion-ordered object
  file,       \* db.js:8      the document at localDbPath on disk
  remote,     \* db.js:14     the content of the hosted key-value service
  diskOk,     \* whether the disk accepts the writes of db.js:55-57
  last,       \* the last call made on the store's interface and its outcome
  nops,       \* number of calls made on the store's interface so far
  written,    \* per key, the value of the last set not followed by a delete
  token,      \* server.js:27   process.env.APIFY_API_TOKEN
  clock,      \* the system clock read by Date.now() and new Date()
  reqs,       \* the requests being handled: position, locals, response
  turn,       \* the request whose continuations the event loop is running
  started     \* number of requests received so far

dbVars == <<replitDb, data, file, remote, diskOk>>
srvVars == <<token, clock, reqs, turn, started>>
callVars == <<last, nops, written>>
vars == <<replitDb, data, file, remote, diskOk, last, nops, written, token, clock, reqs, turn, started>>

(***************************************************************************)
(* Bounds of the model.                                                    *)
(***************************************************************************)
MaxDbOps == 3
MaxRequests == 2
MaxClock == 2
MaxItems == 1
NumProcs == 2
MaxProps == 2

(***************************************************************************)
(* Strings.                                                                *)
(***************************************************************************)
SearchPrefix == <<"s", "e", "a", "r", "c", "h", ":">>
LeadPrefix == <<"l", "e", "a", "d", ":">>

\* String.prototype.startsWith, as used at db.js:78.
StartsWith(s, prefix) ==
  /\ Len(prefix) <= Len(s)
  /\ \A i \in 1..Len(prefix) : s[i] = prefix[i]

\* String.prototype.includes, as used at server.js:120 and 123.
Includes(s, sub) ==
  \E i \in 0..(Len(s) - Len(sub)) : \A j \in 1..Len(sub) : s[i + j] = sub[j]

\* String.prototype.trim: white space removed from both ends.
RECURSIVE TrimStart(_)
TrimStart(s) ==
  IF s # <<>> /\ Head(s) = " " THEN TrimStart(Tail(s)) ELSE s

RECURSIVE TrimEnd(_)
TrimEnd(s) ==
  IF s # <<>> /\ s[Len(s)] = " " THEN TrimEnd(SubSeq(s, 1, Len(s) - 1)) ELSE s

Trim(s) == TrimEnd(TrimStart(s))

DigitChar == <<"0", "1", "2", "3", "4", "5", "6", "7", "8", "9">>

\* The decimal numeral of a natural number, as a template literal writes it.
RECURSIVE Digits(_)
Digits(n) ==
  IF n < 10
  THEN <<DigitChar[n + 1]>>
  ELSE Digits(n \div 10) \o <<DigitChar[(n % 10) + 1]>>

(***************************************************************************)
(* JSON values.  Every value is a record with a type field.                *)
(***************************************************************************)
JNull == [type |-> "null"]
JBool(b) == [type |-> "boolean", b |-> b]
JNum(n) == [type |-> "number", n |-> n]
JStr(s) == [type |-> "string", s |-> s]
JArr(elems) == [type |-> "array", elems |-> elems]
JObj(props) == [type |-> "object", props |-> props]
Undefined == [type |-> "undefined"]

\* JavaScript truthiness, as applied by the || of db.js:64.
Truthy(v) ==
  CASE v.type = "null" -> FALSE
    [] v.type = "undefined" -> FALSE
    [] v.type = "boolean" -> v.b
    [] v.type = "number" -> v.n # 0
    [] v.type = "string" -> v.s # <<>>
    [] OTHER -> TRUE

(***************************************************************************)
(* A JavaScript object with string keys: a sequence of key/value entries   *)
(* in insertion order, which is the order Object.keys enumerates.          *)
(***************************************************************************)
ObjHas(o, key) == \E i \in 1..Len(o) : o[i].key = key

ObjGet(o, key) ==
  IF ObjHas(o, key)
  THEN o[CHOOSE i \in 1..Len(o) : o[i].key = key].value
  ELSE Undefined

\* o[key] = value: an existing key keeps its place, a new key goes last.
ObjPut(o, key, value) ==
  IF ObjHas(o, key)
  THEN [i \in 1..Len(o) |->
          IF o[i].key = key THEN [key |-> key, value |-> value] ELSE o[i]]
  ELSE Append(o, [key |-> key, value |-> value])

\* delete o[key]
ObjRemove(o, key) == SelectSeq(o, LAMBDA e : e.key # key)

\* Object.keys(o)
ObjKeys(o) == [i \in 1..Len(o) |-> o[i].key]

KeySet(o) == {o[i].key : i \in 1..Len(o)}


(***************************************************************************)
(* src/db.js: the local file-based store.                                  *)
(***************************************************************************)
\* JSON.stringify(this.data, null, 2) (db.js:57): the document written, in
\* which a property whose value is undefined is left out.
JsonStringify(o) == SelectSeq(o, LAMBDA e : e.value.type # "undefined")

\* JSON.parse(content) (db.js:38) of a document written by JsonStringify.
JsonParse(doc) == doc

AbsentFile == [state |-> "absent", doc |-> <<>>]
CorruptFile == [state |-> "corrupt", doc |-> <<>>]
ValidFile(o) == [state |-> "valid", doc |-> JsonStringify(o)]

\* LocalDb.save(): the file after the call; a failing mkdirSync or
\* writeFileSync (ok = FALSE) is caught and logged, and the file stays.
LocalDbSave(d, f, ok) == IF ok THEN ValidFile(d) ELSE f

\* A faulty load that does not write the empty document when it finds no
\* file.
LocalDbLoadNoCreate(f, ok) ==
  CASE f.state = "valid" -> <<JsonParse(f.doc), f>>
    [] OTHER -> <<(<<>>), f>>

\* LocalDb.load(): <<this.data, the file>> after construction from disk f.
LocalDbLoad(f, ok) ==
  CASE f.state = "valid" -> <<JsonParse(f.doc), f>>
    [] f.state = "absent" -> <<(<<>>), LocalDbSave(<<>>, f, ok)>>
    [] OTHER -> <<(<<>>), f>>

\* LocalDb.get(key): this.data[key] || null
LocalDbGet(d, key) ==
  IF Truthy(ObjGet(d, key)) THEN ObjGet(d, key) ELSE JNull

\* A faulty set that starts from a map of its own, losing what other
\* requests wrote.
LocalDbSetAlone(d, key, value) == <<[key |-> key, value |-> value]>>

\* LocalDb.set(key, value): this.data after the assignment
LocalDbSet(d, key, value) == ObjPut(d, key, value)

\* A faulty delete, by position: an absent key (indexOf gives -1) takes
\* the last entry away.  C9 must tell it from LocalDbDelete.
LocalDbDeleteByIndex(d, key) ==
  IF ObjHas(d, key) THEN ObjRemove(d, key) ELSE SubSeq(d, 1, Len(d) - 1)

\* LocalDb.delete(key): this.data after the delete
LocalDbDelete(d, key) == ObjRemove(d, key)

\* A faulty list, matching the prefix anywhere in the key.  C8 must tell
\* it from LocalDbList.
LocalDbListIncludes(d, prefix) ==
  SelectSeq(ObjKeys(d), LAMBDA key : Includes(key, prefix))

\* LocalDb.list(prefix)
LocalDbList(d, prefix) ==
  SelectSeq(ObjKeys(d), LAMBDA key : StartsWith(key, prefix))

(***************************************************************************)
(* src/db.js: the unified interface.  With replitDb set every call is      *)
(* delegated to the hosted service, which may fail (ok = FALSE: the        *)
(* returned promise rejects and the service's content is unchanged).       *)
(***************************************************************************)
\* The mapping the interface reads and writes.
Store == IF replitDb THEN remote ELSE data

\* The orders in which a sequence without repetitions can be enumerated.
Perms(s) ==
  {p \in [1..Len(s) -> {s[i] : i \in 1..Len(s)}] :
     \A i, j \in 1..Len(s) : i # j => p[i] # p[j]}

\* module.exports.get(key): the value the returned promise resolves to.
DbGet(key) ==
  IF replitDb
  THEN IF ObjHas(remote, key) THEN ObjGet(remote, key) ELSE JNull
  ELSE LocalDbGet(data, key)

\* module.exports.list(prefix): the key lists the promise may resolve to.
\* The hosted service enumerates in an order of its own.
DbList(prefix) ==
  IF replitDb
  THEN Perms(SelectSeq(ObjKeys(remote), LAMBDA key : StartsWith(key, prefix)))
  ELSE {LocalDbList(data, prefix)}

\* module.exports.set(key, value): the effect on the stores.
DbSet(key, value, ok) ==
  IF replitDb
  THEN /\ remote' = IF ok THEN ObjPut(remote, key, value) ELSE remote
       /\ UNCHANGED <<data, file>>
  ELSE /\ data' = LocalDbSet(data, key, value)
       /\ file' = LocalDbSave(LocalDbSet(data, key, value), file, ok)
       /\ UNCHANGED remote

\* module.exports.delete(key): the effect on the stores.
DbDelete(key, ok) ==
  IF replitDb
  THEN /\ remote' = IF ok THEN ObjRemove(remote, key) ELSE remote
       /\ UNCHANGED <<data, file>>
  ELSE /\ data' = LocalDbDelete(data, key)
       /\ file' = LocalDbSave(LocalDbDelete(data, key), file, ok)
       /\ UNCHANGED remote

\* The mapping after the step.
StoreAfter == IF replitDb THEN remote' ELSE data'

\* A faulty save that lets its write error escape, so that a local call
\* rejects when the disk refuses.  C4 must tell it from DbThrows.
DbThrowsUncaught(ok) == ~ok

\* Whether the promise of a call with outcome ok rejects: the local
\* backend catches its own write errors (db.js:58-60).
DbThrows(ok) == replitDb /\ ~ok


(***************************************************************************)
(* src/server.js: the result normaliser (lines 81-95 and 133-141).         *)
(* A raw item and a normalised record are JSON objects; their property     *)
(* names are written as sequences of characters where they are serialised. *)
(***************************************************************************)
\* o.name: undefined when o has no such property.
Prop(o, name) == IF o.type = "object" THEN ObjGet(o.props, name) ELSE Undefined

\* a || b
Or(a, b) == IF Truthy(a) THEN a ELSE b

\* v?.[0]
First(v) ==
  CASE v.type = "array" -> IF v.elems # <<>> THEN v.elems[1] ELSE Undefined
    [] v.type = "string" -> IF v.s # <<>> THEN JStr(<<v.s[1]>>) ELSE Undefined
    [] OTHER -> Undefined

\* v?.length
LengthOf(v) ==
  CASE v.type = "array" -> JNum(Len(v.elems))
    [] v.type = "string" -> JNum(Len(v.s))
    [] OTHER -> Undefined

Letters ==
  {"a", "b", "c", "d", "e", "f", "g", "h", "i", "j", "k", "l", "m", "n", "o",
   "p", "q", "r", "s", "t", "u", "v", "w", "x", "y", "z"}
DigitSet == {DigitChar[i] : i \in 1..10}
LocalChars == Letters \cup DigitSet \cup {".", "_", "%", "+", "-"}
DomainChars == Letters \cup DigitSet \cup {".", "-"}

\* The names of the properties, spelled out for JSON.stringify.
NameChars(name) ==
  CASE name = "title" -> <<"t", "i", "t", "l", "e">>
    [] name = "phone" -> <<"p", "h", "o", "n", "e">>
    [] name = "website" -> <<"w", "e", "b", "s", "i", "t", "e">>
    [] name = "email" -> <<"e", "m", "a", "i", "l">>
    [] name = "emails" -> <<"e", "m", "a", "i", "l", "s">>
    [] name = "categoryName" ->
         <<"c", "a", "t", "e", "g", "o", "r", "y", "n", "a", "m", "e">>
    [] name = "categories" ->
         <<"c", "a", "t", "e", "g", "o", "r", "i", "e", "s">>
    [] name = "address" -> <<"a", "d", "d", "r", "e", "s", "s">>
    [] name = "city" -> <<"c", "i", "t", "y">>
    [] name = "state" -> <<"s", "t", "a", "t", "e">>
    [] name = "totalScore" -> <<"t", "o", "t", "a", "l", "s", "c", "o", "r", "e">>
    [] name = "reviewsCount" ->
         <<"r", "e", "v", "i", "e", "w", "s", "c", "o", "u", "n", "t">>
    [] name = "url" -> <<"u", "r", "l">>
    [] name = "placeId" -> <<"p", "l", "a", "c", "e", "i", "d">>
    [] OTHER -> <<"x">>

\* JSON.stringify(v) as a sequence of characters (server.js:138).  Letters
\* are kept in lower case; the values of the model need no escaping.
RECURSIVE JsonText(_)
RECURSIVE JsonElems(_)
RECURSIVE JsonProps(_)
JsonText(v) ==
  CASE v.type = "null" -> <<"n", "u", "l", "l">>
    [] v.type = "boolean" ->
         IF v.b THEN <<"t", "r", "u", "e">> ELSE <<"f", "a", "l", "s", "e">>
    [] v.type = "number" -> Digits(v.n)
    [] v.type = "string" -> <<"\"">> \o v.s \o <<"\"">>
    [] v.type = "array" -> <<"[">> \o JsonElems(v.elems) \o <<"]">>
    [] v.type = "object" -> <<"{">> \o JsonProps(v.props) \o <<"}">>
    [] OTHER -> <<>>
JsonElems(es) ==
  IF es = <<>> THEN <<>>
  ELSE JsonText(es[1]) \o (IF Len(es) > 1 THEN <<",">> ELSE <<>>)
         \o JsonElems(Tail(es))
JsonProps(ps) ==
  IF ps = <<>> THEN <<>>
  ELSE <<"\"">> \o NameChars(ps[1].key) \o <<"\"", ":">> \o JsonText(ps[1].value)
         \o (IF Len(ps) > 1 THEN <<",">> ELSE <<>>) \o JsonProps(Tail(ps))

\* The end of the longest run of characters of class cls that starts at
\* position i of text (i - 1 when text[i] is not in cls).
RECURSIVE RunEnd(_, _, _)
RunEnd(text, i, cls) ==
  IF i <= Len(text) /\ text[i] \in cls THEN RunEnd(text, i + 1, cls) ELSE i - 1

\* The positions at which a match of the regular expression of
\* server.js:137 that starts at i can end, after greedy matching with
\* backtracking: the local part is the longest run, then "@", then the
\* longest domain that leaves a "." and at least two letters.
EmailMatchEnds(text, i) ==
  LET l == RunEnd(text, i, LocalChars)
      d == RunEnd(text, l + 2, DomainChars)
  IN IF l >= i /\ l + 1 <= Len(text) /\ text[l + 1] = "@"
     THEN {RunEnd(text, k + 2, Letters) : k \in
             {k \in (l + 2)..(d - 1) :
                /\ text[k + 1] = "."
                /\ RunEnd(text, k + 2, Letters) >= k + 3}}
     ELSE {}

Max(S) == CHOOSE x \in S : \A y \in S : y <= x
Min(S) == CHOOSE x \in S : \A y \in S : x <= y

\* text.match(emailRegex): the leftmost match, or null.  A match that starts
\* inside a run of local-part characters has one that starts where the run
\* starts, so the leftmost match starts a run.
EmailMatch(text) ==
  LET starts == {i \in 1..Len(text) :
                   /\ text[i] \in LocalChars
                   /\ i > 1 => text[i - 1] \notin LocalChars
                   /\ EmailMatchEnds(text, i) # {}}
  IN IF starts = {} THEN JNull
     ELSE LET first == Min(starts)
          IN JStr(SubSeq(text, first, Max(EmailMatchEnds(text, first))))

\* A faulty extractEmail that looks at the list of emails first.
ExtractEmailListFirst(item) ==
  IF Truthy(LengthOf(Prop(item, "emails"))) THEN First(Prop(item, "emails"))
  ELSE IF Truthy(Prop(item, "email")) THEN Prop(item, "email")
  ELSE LET match == EmailMatch(JsonText(item))
       IN IF Truthy(match) THEN match ELSE JStr(<<>>)

\* extractEmail(item), server.js:133-141
ExtractEmail(item) ==
  IF Truthy(Prop(item, "email")) THEN Prop(item, "email")
  ELSE IF Truthy(LengthOf(Prop(item, "emails"))) THEN First(Prop(item, "emails"))
  ELSE LET match == EmailMatch(JsonText(item))
       IN IF Truthy(match) THEN match ELSE JStr(<<>>)

NA == <<"N", "/", "A">>

\* The record built from one raw item, server.js:82-95.
Normalize(item, city, state) ==
  JObj(<<
    [key |-> "title", value |-> Or(Prop(item, "title"), JStr(NA))],
    [key |-> "phone", value |-> Or(Prop(item, "phone"), JStr(<<>>))],
    [key |-> "website", value |-> Or(Prop(item, "website"), JStr(<<>>))],
    [key |-> "email", value |-> ExtractEmail(item)],
    [key |-> "category", value |->
       Or(Prop(item, "categoryName"),
          Or(First(Prop(item, "categories")), JStr(<<>>)))],
    [key |-> "address", value |-> Or(Prop(item, "address"), JStr(<<>>))],
    [key |-> "city", value |-> Or(Prop(item, "city"), JStr(Trim(city.s)))],
    [key |-> "state", value |-> Or(Prop(item, "state"), JStr(Trim(state.s)))],
    [key |-> "rating", value |-> Or(Prop(item, "totalScore"), JNum(0))],
    [key |-> "reviewCount", value |-> Or(Prop(item, "reviewsCount"), JNum(0))],
    [key |-> "url", value |-> Or(Prop(item, "url"), JStr(<<>>))],
    [key |-> "placeId", value |-> Or(Prop(item, "placeId"), JStr(<<>>))]>>)


(***************************************************************************)
(* src/server.js: values the handlers build.                               *)
(***************************************************************************)
Procs == 1..NumProcs

SearchKey(t) == SearchPrefix \o Digits(t)    \* `search:${Date.now()}`
LeadKey(t) == LeadPrefix \o Digits(t)        \* `lead:${Date.now()}`

\* new Date(t).toISOString(): a string that spells the instant t.
ToISOString(t) == JStr(<<"T">> \o Digits(t))

\* A fixed text of the program, named rather than spelled.
Text(id) == [type |-> "text", id |-> id]

PlaceholderToken ==
  <<"y", "o", "u", "r", "_", "a", "p", "i", "f", "y", "_", "a", "p", "i", "_",
    "t", "o", "k", "e", "n", "_", "h", "e", "r", "e">>

\* A faulty getApifyClient that takes the placeholder for a token.  C7
\* must tell it from GetApifyClient.
GetApifyClientAnyText(tok) ==
  IF ~Truthy(tok) THEN JNull ELSE [type |-> "client", token |-> tok]

\* getApifyClient(), server.js:26-32
GetApifyClient(tok) ==
  IF ~Truthy(tok) \/ tok = JStr(PlaceholderToken)
  THEN JNull
  ELSE [type |-> "client", token |-> tok]

\* A faulty check that forgets to trim.  C5 must tell it from Blank.
BlankUntrimmed(field) ==
  IF field.type = "undefined" THEN TRUE ELSE ~Truthy(field)

\* !field?.trim(), server.js:47-49
Blank(field) ==
  IF field.type = "undefined" THEN TRUE ELSE ~Truthy(JStr(Trim(field.s)))

\* missingFields, server.js:46-49
MissingFields(keyword, city, state) ==
  (IF Blank(keyword) THEN <<"Keyword">> ELSE <<>>)
    \o (IF Blank(city) THEN <<"City">> ELSE <<>>)
    \o (IF Blank(state) THEN <<"State">> ELSE <<>>)

\* error.message?.includes(code)
MessageIncludes(error, code) ==
  IF error.message.type = "string" THEN Includes(error.message.s, code) ELSE FALSE

\* The error page of the catch block, server.js:114-128.
SearchError(error) ==
  IF error.statusCode = 401 \/ MessageIncludes(error, <<"4", "0", "1">>)
  THEN [view |-> "error", error |-> "Invalid Apify API token",
        message |-> Text("token detail")]
  ELSE IF error.statusCode = 402 \/ MessageIncludes(error, <<"4", "0", "2">>)
  THEN [view |-> "error", error |-> "Insufficient Apify credits",
        message |-> Text("credits detail")]
  ELSE [view |-> "error", error |-> "An error occurred while searching.",
        message |-> error.message]

\* The Search entry stored at server.js:99-105.
SearchEntry(keyword, city, state, results, now) ==
  JObj(<<
    [key |-> "query", value |-> JStr(Trim(keyword.s))],
    [key |-> "location", value |->
       JStr(Trim(city.s) \o <<",", " ">> \o Trim(state.s))],
    [key |-> "resultCount", value |-> JNum(Len(results))],
    [key |-> "results", value |-> JArr(results)],
    [key |-> "date", value |-> ToISOString(now)]>>)

\* { ...lead, savedAt: new Date().toISOString() }, server.js:236-239
LeadEntry(lead, now) == JObj(ObjPut(lead.props, "savedAt", ToISOString(now)))

\* a === b for the values compared at server.js:288
StrictEquals(a, b) == a = b /\ a.type \notin {"object", "array"}

\* { key, ...data }, server.js:152-155 and 213-216: the key first, then
\* the own properties of data in their order, a property named key
\* taking the place of the first.
RECURSIVE Spread(_, _)
Spread(o, props) ==
  IF props = <<>> THEN o
  ELSE Spread(ObjPut(o, props[1].key, props[1].value), Tail(props))

KeyedEntry(key, got) ==
  JObj(Spread(<<[key |-> "key", value |-> JStr(key)]>>,
              IF got.type = "object" THEN got.props ELSE <<>>))

ProtoName == <<"_", "_", "p", "r", "o", "t", "o", "_", "_">>

\* The property key a value is turned into when it indexes an object.
ToPropertyKey(v) ==
  CASE v.type = "string" -> v.s
    [] v.type = "number" -> Digits(v.n)
    [] v.type = "null" -> <<"n", "u", "l", "l">>
    [] v.type = "boolean" ->
         IF v.b THEN <<"t", "r", "u", "e">> ELSE <<"f", "a", "l", "s", "e">>
    [] OTHER -> <<"u", "n", "d", "e", "f", "i", "n", "e", "d">>

\* o[name] = value on an object created by {} (server.js:252 and 257):
\* the name __proto__ reaches the setter of Object.prototype, which
\* ignores a value that is neither an object nor null and creates no
\* property.
AssignProp(o, name, value) ==
  IF name = ProtoName /\ value.type \notin {"object", "null"}
  THEN o
  ELSE ObjPut(o, name, value)

\* The value of a decimal numeral; -1 when s is not one.
RECURSIVE ParseDigits(_)
ParseDigits(s) ==
  IF s = <<>> THEN -1
  ELSE LET d == {n \in 0..9 : DigitChar[n + 1] = s[Len(s)]}
       IN IF d = {} THEN -1
          ELSE IF Len(s) = 1 THEN CHOOSE n \in d : TRUE
          ELSE LET rest == ParseDigits(SubSeq(s, 1, Len(s) - 1))
               IN IF rest < 0 THEN -1 ELSE 10 * rest + (CHOOSE n \in d : TRUE)

NaN == [type |-> "NaN"]

\* new Date(v) as a number: the instant a string written by ToISOString
\* spells, NaN for any other value.
DateValue(v) ==
  IF v.type = "string" /\ Len(v.s) >= 2 /\ v.s[1] = "T"
     /\ ParseDigits(Tail(v.s)) >= 0
  THEN JNum(ParseDigits(Tail(v.s)))
  ELSE NaN

\* The comparator of server.js:160 and 221 has put a before b, or left
\* them in the order they were in: new Date(b[field]) - new Date(a[field])
\* is not positive (NaN counts as zero).
KeepsOrder(a, b, field) ==
  LET ta == DateValue(Prop(a, field))
      tb == DateValue(Prop(b, field))
  IN IF ta = NaN \/ tb = NaN THEN TRUE ELSE tb.n - ta.n <= 0

\* entries.sort(comparator): Array.prototype.sort is stable, so an entry
\* goes behind every earlier entry that the comparator does not put after
\* it.
RECURSIVE SortNewestFirst(_, _)
SortNewestFirst(entries, field) ==
  IF entries = <<>> THEN <<>>
  ELSE LET sorted == SortNewestFirst(SubSeq(entries, 1, Len(entries) - 1), field)
           e == entries[Len(entries)]
           n == Cardinality({j \in 1..Len(sorted) : ~KeepsOrder(sorted[j], e, field)})
       IN SubSeq(sorted, 1, Len(sorted) - n) \o <<e>>
            \o SubSeq(sorted, Len(sorted) - n + 1, Len(sorted))

(***************************************************************************)
(* The inputs of the model.                                                *)
(***************************************************************************)
NoError == [statusCode |-> 0, message |-> Undefined, from |-> "none"]

\* What client.actor(...).call and client.dataset(...).listItems reject with.
ScraperError(c, m) == [statusCode |-> c, message |-> m, from |-> "scraper"]

ScraperErrors ==
  {ScraperError(401, JStr(<<"e">>)),
   ScraperError(402, JStr(<<"e">>)),
   ScraperError(500, JStr(<<"e">>)),
   ScraperError(500, Undefined),
   ScraperError(500, JStr(<<"i", "d", "4", "0", "1", "7">>)),
   ScraperError(500, JStr(<<"4", "0", "2">>)),
   ScraperError(402, JStr(<<"i", "d", "4", "0", "1", "7">>))}

\* What the hosted key-value service rejects with.
StoreError == [statusCode |-> 0, message |-> JStr(<<"d", "b">>), from |-> "store"]

Tokens == {Undefined, JStr(<<>>), JStr(PlaceholderToken), JStr(<<"k">>)}

\* A form field: absent, empty, white space only, or a padded word.
BlankFields == {Undefined, JStr(<<>>), JStr(<<" ">>)}
FilledField == JStr(<<" ", "p", " ">>)

\* The submitted forms: every combination of blank and filled fields, the
\* blank fields of one form being blank in the same way.
Forms ==
  {[keyword |-> IF k THEN b ELSE FilledField,
    city |-> IF c THEN b ELSE FilledField,
    state |-> IF st THEN b ELSE FilledField] :
     k \in BOOLEAN, c \in BOOLEAN, st \in BOOLEAN, b \in BlankFields}

\* What the scraper returns: one kind of raw item is enough for the
\* handlers, which treat every item alike.
RawItems ==
  {JObj(<<[key |-> "categories", value |-> JArr(<<JStr(<<"p">>)>>)],
          [key |-> "website", value |-> JStr(<<"w", " ", "o", "@", "s", ".", "c", "o">>)]>>)}

RECURSIVE SeqsUpTo(_, _)
SeqsUpTo(S, n) ==
  IF n = 0 THEN {<<>>}
  ELSE SeqsUpTo(S, n - 1) \cup
         {Append(q, x) : q \in {r \in SeqsUpTo(S, n - 1) : Len(r) = n - 1}, x \in S}

ItemLists == SeqsUpTo(RawItems, MaxItems)

Titles == {JStr(<<"a">>), JStr(<<"b">>)}

LeadBodies == {JObj(<<[key |-> "title", value |-> t]>>) : t \in Titles}

\* A key no handler ever creates.
AbsentKey == LeadPrefix \o <<"x">>

\* A lead saved by an earlier run of the service.
OldDoc == <<[key |-> LeadKey(0), value |-> LeadEntry(JObj(<<[key |-> "title", value |-> JStr(<<"a">>)]>>), 0)]>>


(***************************************************************************)
(* src/server.js: the request handlers.  A handler runs from one await to  *)
(* the next in one step.  The local backend resolves every store call      *)
(* without leaving the event loop's microtask queue, so a handler that has *)
(* called it runs on (turn) until it awaits the scraper or responds; a     *)
(* call to the hosted service or to the scraper yields to other requests.  *)
(***************************************************************************)
NoReq ==
  [kind |-> "none", pc |-> "idle",
   keyword |-> Undefined, city |-> Undefined, state |-> Undefined,
   title |-> Undefined, key |-> <<>>, value |-> Undefined,
   keys |-> <<>>, i |-> 0, results |-> <<>>,
   response |-> [view |-> "none"],
   failure |-> NoError,     \* the error the handler caught, if any
   invoked |-> 0,           \* calls made to the scraper
   writes |-> 0,            \* set and delete calls made to the store
   persisted |-> FALSE,     \* the store took the entry of this request
   fresh |-> FALSE,         \* ... under a key the store did not hold
   removed |-> FALSE,       \* the delete of this request took an entry
                            \* out of the store
   pushed |-> <<>>,         \* listings: the keys whose entries were taken
   kept |-> {},             \* listings: the keys in the store ever since
                            \* the request arrived
   before |-> <<>>,         \* delete-by-title: the store on arrival
   interfered |-> FALSE]    \* delete-by-title: the store was changed by
                            \* another request since

InFlight(r) == r.pc \notin {"idle", "done"}

\* A request arrives: it is given the first slot not in use.
CanStart(p) ==
  /\ ~InFlight(reqs[p])
  /\ \A q \in 1..(p - 1) : InFlight(reqs[q])
  /\ turn = 0
  /\ started < MaxRequests

CanStep(p, pc) == reqs[p].pc = pc /\ turn \in {0, p}

NewReq(kind) == [NoReq EXCEPT !.kind = kind]

\* Who runs next after request p has called the store.
AfterDbCall(p) == IF replitDb THEN 0 ELSE p

\* The outcomes of a call that only reads the store: the hosted service
\* may fail, the in-memory object does not.
ReadOutcomes == IF replitDb THEN BOOLEAN ELSE {TRUE}

\* The outcomes of a call that writes: the hosted service may fail, and
\* the local write succeeds when the disk accepts it.
WriteOutcomes == IF replitDb THEN BOOLEAN ELSE {diskOk}

\* GET /history, GET /leads and GET /leads/saved.
ListingKinds == {"history", "leads", "saved"}

\* reqs after request p moved to r: a response already sent is forgotten,
\* and when changed is TRUE the store was changed under the other
\* requests in flight.
Moved(p, r, changed) ==
  [q \in Procs |->
     IF q = p THEN r
     ELSE IF ~InFlight(reqs[q]) THEN NoReq
     ELSE IF changed /\ reqs[q].kind = "deleteByTitle"
          THEN [reqs[q] EXCEPT !.interfered = TRUE]
     ELSE IF changed /\ reqs[q].kind \in ListingKinds
          THEN [reqs[q] EXCEPT !.interfered = TRUE,
                               !.kept = @ \cap KeySet(StoreAfter)]
     ELSE reqs[q]]

JsonOk == [view |-> "json", status |-> 200, success |-> TRUE]
JsonFail(error) ==
  [view |-> "json", status |-> 500, success |-> FALSE, error |-> error.message]

\* The clock moves on.
Tick ==
  /\ clock < MaxClock
  /\ clock' = clock + 1
  /\ UNCHANGED <<dbVars, callVars, token, reqs, turn, started>>

\* POST /search up to the call of the actor, server.js:42-76
PostSearch(p, keyword, city, state) ==
  /\ CanStart(p)
  /\ LET missing == MissingFields(keyword, city, state)
         r == [NewReq("search") EXCEPT
                 !.keyword = keyword, !.city = city, !.state = state]
     IN reqs' = Moved(p,
          IF Len(missing) > 0
          THEN [r EXCEPT !.pc = "done",
                  !.response = [view |-> "error",
                                error |-> "Missing required fields",
                                fields |-> missing,
                                message |-> Text("fill in all fields")]]
          ELSE IF GetApifyClient(token) = JNull
          THEN [r EXCEPT !.pc = "done",
                  !.response = [view |-> "error",
                                error |-> "Apify API token not configured",
                                message |-> Text("add your token")]]
          ELSE [r EXCEPT !.pc = "awaitRun", !.invoked = 1], FALSE)
  /\ started' = started + 1
  /\ UNCHANGED <<dbVars, callVars, token, clock, turn>>

\* The catch block of POST /search, server.js:114-129
SearchFailed(r, error) ==
  [r EXCEPT !.pc = "done", !.failure = error, !.response = SearchError(error)]

\* client.actor(...).call(...) settles, server.js:71-79
ActorCallReturns(p) ==
  /\ CanStep(p, "awaitRun")
  /\ \E outcome \in {NoError} \cup ScraperErrors :
       reqs' = Moved(p,
         IF outcome = NoError
         THEN [reqs[p] EXCEPT !.pc = "awaitItems", !.invoked = @ + 1]
         ELSE SearchFailed(reqs[p], outcome), FALSE)
  /\ UNCHANGED <<dbVars, callVars, token, clock, turn, started>>

\* client.dataset(...).listItems() settles; the results are mapped and the
\* search is handed to db.set, server.js:79-105
ListItemsReturns(p) ==
  /\ CanStep(p, "awaitItems")
  /\ \/ /\ \E error \in ScraperErrors :
             reqs' = Moved(p, SearchFailed(reqs[p], error), FALSE)
        /\ UNCHANGED <<clock, turn>>
     \/ \E items \in ItemLists, d \in {0, 1} :
          LET r == reqs[p]
              results == [i \in 1..Len(items) |->
                            Normalize(items[i], r.city, r.state)]
          IN /\ clock + d <= MaxClock
             /\ clock' = clock + d
             /\ reqs' = Moved(p,
                  [r EXCEPT !.pc = "awaitSet",
                            !.results = results,
                            !.key = SearchKey(clock),
                            !.value = SearchEntry(r.keyword, r.city, r.state,
                                                  results, clock + d),
                            !.writes = @ + 1], FALSE)
             /\ turn' = AfterDbCall(p)
  /\ UNCHANGED <<dbVars, callVars, token, started>>

\* POST /leads/save up to the call of db.set, server.js:231-239
PostLeadsSave(p, lead) ==
  /\ CanStart(p)
  /\ \E d \in {0, 1} :
       /\ clock + d <= MaxClock
       /\ clock' = clock + d
       /\ reqs' = Moved(p,
            [NewReq("save") EXCEPT !.pc = "awaitSet",
                                   !.key = LeadKey(clock),
                                   !.value = LeadEntry(lead, clock + d),
                                   !.writes = 1], FALSE)
  /\ turn' = AfterDbCall(p)
  /\ started' = started + 1
  /\ UNCHANGED <<dbVars, callVars, token>>

\* What the set call with outcome ok did for the entry of request r, noted
\* on its next state s: the store took the entry (the hosted service when
\* it accepted the call, the in-memory object always), and whether the key
\* was new to the store.
Recorded(r, s, ok) ==
  [s EXCEPT !.persisted = /\ replitDb => ok
                          /\ ObjHas(StoreAfter, r.key)
                          /\ ObjGet(StoreAfter, r.key) = r.value,
            !.fresh = ~ObjHas(Store, r.key)]

\* db.set settles and the handler responds: server.js:107-112 and 114-129
\* for a search, 241-245 for a lead.
SetReturns(p) ==
  /\ CanStep(p, "awaitSet")
  /\ \E ok \in WriteOutcomes :
       LET r == reqs[p] IN
       /\ DbSet(r.key, r.value, ok)
       /\ written' = IF DbThrows(ok) THEN written
                                     ELSE ObjPut(written, r.key, r.value)
       /\ reqs' = Moved(p,
            Recorded(r, IF DbThrows(ok)
            THEN IF r.kind = "search"
                 THEN SearchFailed(r, StoreError)
                 ELSE [r EXCEPT !.pc = "done", !.failure = StoreError,
                                !.response = JsonFail(StoreError)]
            ELSE [r EXCEPT !.pc = "done",
                    !.response =
                      IF r.kind = "search"
                      THEN [view |-> "results", results |-> r.results,
                            query |-> JStr(Trim(r.keyword.s)),
                            location |-> JStr(Trim(r.city.s) \o <<",", " ">>
                                                \o Trim(r.state.s)),
                            searchKey |-> r.key]
                      ELSE [view |-> "json", status |-> 200, success |-> TRUE,
                            key |-> r.key]], ok),
            StoreAfter # Store)
  /\ turn' = 0
  /\ UNCHANGED <<replitDb, diskOk, last, nops, token, clock, started>>

\* POST /leads/delete/:key up to the call of db.delete, server.js:269-272
PostLeadsDelete(p, key) ==
  /\ CanStart(p)
  /\ reqs' = Moved(p,
       [NewReq("delete") EXCEPT !.pc = "awaitDelete", !.key = key, !.writes = 1],
       FALSE)
  /\ turn' = AfterDbCall(p)
  /\ started' = started + 1
  /\ UNCHANGED <<dbVars, callVars, token, clock>>

\* POST /leads/delete-by-title up to the call of db.list, server.js:281-284
PostDeleteByTitle(p, title) ==
  /\ CanStart(p)
  /\ reqs' = Moved(p,
       [NewReq("deleteByTitle") EXCEPT !.pc = "awaitList", !.title = title,
                                        !.before = Store],
       FALSE)
  /\ turn' = AfterDbCall(p)
  /\ started' = started + 1
  /\ UNCHANGED <<dbVars, callVars, token, clock>>

\* The handler of request r fails with a store error, server.js:295-298
StoreFailed(r) ==
  [r EXCEPT !.pc = "done", !.failure = StoreError, !.response = JsonFail(StoreError)]

\* A faulty loop that gives up after the first key.  C10 must tell it from
\* ScanFrom.
ScanFirstOnly(r, i) ==
  IF i <= Len(r.keys) /\ i = 1
  THEN [r EXCEPT !.pc = "awaitGet", !.i = i]
  ELSE [r EXCEPT !.pc = "done", !.i = i,
          !.response = [view |-> "json", status |-> 200, success |-> FALSE,
                        error |-> Text("Lead not found")]]

\* The loop of server.js:286-294 from key number i on: the next db.get,
\* or the not-found response after the last key.
ScanFrom(r, i) ==
  IF i <= Len(r.keys)
  THEN [r EXCEPT !.pc = "awaitGet", !.i = i]
  ELSE [r EXCEPT !.pc = "done", !.i = i,
          !.response = [view |-> "json", status |-> 200, success |-> FALSE,
                        error |-> Text("Lead not found")]]

\* db.list('lead:') settles, server.js:284-287
ListReturns(p) ==
  /\ CanStep(p, "awaitList")
  /\ \E ok \in ReadOutcomes :
       IF DbThrows(ok)
       THEN reqs' = Moved(p, StoreFailed(reqs[p]), FALSE) /\ turn' = 0
       ELSE \E keys \in DbList(LeadPrefix) :
              /\ reqs' = Moved(p, ScanFrom([reqs[p] EXCEPT !.keys = keys], 1), FALSE)
              /\ turn' = IF Len(keys) > 0 THEN AfterDbCall(p) ELSE 0
  /\ UNCHANGED <<dbVars, callVars, token, clock, started>>

\* db.get(key) settles, server.js:287-292
GetReturns(p) ==
  /\ CanStep(p, "awaitGet")
  /\ \E ok \in ReadOutcomes :
       LET r == reqs[p]
           key == r.keys[r.i]
           got == DbGet(key)
       IN IF DbThrows(ok)
          THEN reqs' = Moved(p, StoreFailed(r), FALSE) /\ turn' = 0
          ELSE IF Truthy(got) /\ StrictEquals(Prop(got, "title"), r.title)
          THEN /\ reqs' = Moved(p,
                    [r EXCEPT !.pc = "awaitDelete", !.key = key, !.writes = @ + 1],
                    FALSE)
               /\ turn' = AfterDbCall(p)
          ELSE /\ reqs' = Moved(p, ScanFrom(r, r.i + 1), FALSE)
               /\ turn' = IF r.i + 1 <= Len(r.keys) THEN AfterDbCall(p) ELSE 0
  /\ UNCHANGED <<dbVars, callVars, token, clock, started>>

\* db.delete(key) settles and the handler responds, server.js:272-277,
\* 289-290 and 196-201
DeleteReturns(p) ==
  /\ CanStep(p, "awaitDelete")
  /\ \E ok \in WriteOutcomes :
       LET r == reqs[p] IN
       /\ DbDelete(r.key, ok)
       /\ written' = IF DbThrows(ok) THEN written
                                     ELSE ObjRemove(written, r.key)
       /\ reqs' = Moved(p,
            IF DbThrows(ok)
            THEN IF r.kind = "historyDelete"
                 THEN [r EXCEPT !.pc = "done", !.failure = StoreError,
                         !.response = [view |-> "error",
                                       error |-> "Failed to delete search",
                                       message |-> StoreError.message]]
                 ELSE StoreFailed(r)
            ELSE [r EXCEPT !.pc = "done",
                           !.response = IF r.kind = "historyDelete"
                                        THEN [view |-> "redirect", to |-> "/history"]
                                        ELSE JsonOk,
                           !.removed = ObjHas(Store, r.key)
                                         /\ ~ObjHas(StoreAfter, r.key)],
            StoreAfter # Store)
  /\ turn' = 0
  /\ UNCHANGED <<replitDb, diskOk, last, nops, token, clock, started>>

\* The prefix of the keys a listing enumerates, server.js:146, 207, 251.
ListingPrefix(kind) == IF kind = "history" THEN SearchPrefix ELSE LeadPrefix

\* GET /history, GET /leads and GET /leads/saved up to the call of
\* db.list, server.js:144-146, 205-207 and 249-251
GetListing(p, kind) ==
  /\ CanStart(p)
  /\ reqs' = Moved(p,
       [NewReq(kind) EXCEPT !.pc = "awaitKeys", !.kept = KeySet(Store)], FALSE)
  /\ turn' = AfterDbCall(p)
  /\ started' = started + 1
  /\ UNCHANGED <<dbVars, callVars, token, clock>>

\* The catch blocks of the listings, server.js:163-166, 224-227, 262-265
ListingFailed(r) ==
  [r EXCEPT !.pc = "done", !.failure = StoreError,
     !.response =
       CASE r.kind = "history" ->
              [view |-> "error", error |-> "Failed to load history",
               message |-> StoreError.message]
         [] r.kind = "leads" ->
              [view |-> "error", error |-> "Failed to load leads",
               message |-> StoreError.message]
         [] OTHER -> [view |-> "json", status |-> 500, body |-> JObj(<<>>)]]

\* After the loop: the sort and the response, server.js:160-162, 221-223
\* and 261
ListingDone(r) ==
  [r EXCEPT !.pc = "done",
     !.response =
       CASE r.kind = "history" ->
              [view |-> "history",
               searches |-> SortNewestFirst(r.results, "date")]
         [] r.kind = "leads" ->
              [view |-> "leads", leads |-> SortNewestFirst(r.results, "savedAt")]
         [] OTHER -> [view |-> "json", status |-> 200, body |-> JObj(r.results)]]

\* A faulty loop body that does not look whether the key had data.
TakeEntryUnchecked(r, key, got) ==
  [r EXCEPT
     !.results = IF r.kind = "saved"
                 THEN AssignProp(@, ToPropertyKey(Prop(got, "title")), JStr(key))
                 ELSE Append(@, KeyedEntry(key, got)),
     !.pushed = Append(@, key)]

\* The body of the loops, server.js:150-157, 211-218 and 255-258: what is
\* kept of the data got for key.
TakeEntry(r, key, got) ==
  IF Truthy(got)
  THEN [r EXCEPT
          !.results = IF r.kind = "saved"
                      THEN AssignProp(@, ToPropertyKey(Prop(got, "title")), JStr(key))
                      ELSE Append(@, KeyedEntry(key, got)),
          !.pushed = Append(@, key)]
  ELSE r

\* The loop from key number i on: the next db.get, or the response.
FetchFrom(r, i) ==
  IF i <= Len(r.keys)
  THEN [r EXCEPT !.pc = "awaitEntry", !.i = i]
  ELSE ListingDone([r EXCEPT !.i = i])

\* db.list(prefix) settles in a listing, server.js:146, 207 and 251
KeysReturn(p) ==
  /\ CanStep(p, "awaitKeys")
  /\ \E ok \in ReadOutcomes :
       IF DbThrows(ok)
       THEN reqs' = Moved(p, ListingFailed(reqs[p]), FALSE) /\ turn' = 0
       ELSE \E keys \in DbList(ListingPrefix(reqs[p].kind)) :
              /\ reqs' = Moved(p, FetchFrom([reqs[p] EXCEPT !.keys = keys], 1), FALSE)
              /\ turn' = IF Len(keys) > 0 THEN AfterDbCall(p) ELSE 0
  /\ UNCHANGED <<dbVars, callVars, token, clock, started>>

\* db.get(key) settles in a listing, server.js:150-157, 211-218, 255-258
EntryReturns(p) ==
  /\ CanStep(p, "awaitEntry")
  /\ \E ok \in ReadOutcomes :
       LET r == reqs[p]
           key == r.keys[r.i]
       IN IF DbThrows(ok)
          THEN reqs' = Moved(p, ListingFailed(r), FALSE) /\ turn' = 0
          ELSE /\ reqs' = Moved(p, FetchFrom(TakeEntry(r, key, DbGet(key)), r.i + 1),
                                FALSE)
               /\ turn' = IF r.i + 1 <= Len(r.keys) THEN AfterDbCall(p) ELSE 0
  /\ UNCHANGED <<dbVars, callVars, token, clock, started>>

\* GET /history/:key up to the call of db.get, server.js:170-173
GetHistoryEntry(p, key) ==
  /\ CanStart(p)
  /\ reqs' = Moved(p, [NewReq("historyView") EXCEPT !.pc = "awaitView", !.key = key],
                   FALSE)
  /\ turn' = AfterDbCall(p)
  /\ started' = started + 1
  /\ UNCHANGED <<dbVars, callVars, token, clock>>

\* db.get(key) settles in GET /history/:key, server.js:173-189
ViewReturns(p) ==
  /\ CanStep(p, "awaitView")
  /\ \E ok \in ReadOutcomes :
       LET r == reqs[p]
           got == DbGet(r.key)
       IN reqs' = Moved(p,
            IF DbThrows(ok)
            THEN [r EXCEPT !.pc = "done", !.failure = StoreError,
                    !.response = [view |-> "error", error |-> "Failed to load search",
                                  message |-> StoreError.message]]
            ELSE IF ~Truthy(got)
            THEN [r EXCEPT !.pc = "done",
                    !.response = [view |-> "error", error |-> "Search not found",
                                  message |-> Text("may have been deleted")]]
            ELSE [r EXCEPT !.pc = "done",
                    !.response = [view |-> "results",
                                  results |-> Prop(got, "results"),
                                  query |-> Prop(got, "query"),
                                  location |-> Prop(got, "location"),
                                  searchKey |-> r.key,
                                  fromHistory |-> TRUE]],
            FALSE)
  /\ turn' = 0
  /\ UNCHANGED <<dbVars, callVars, token, clock, started>>

\* POST /history/delete/:key up to the call of db.delete, server.js:193-196
PostHistoryDelete(p, key) ==
  /\ CanStart(p)
  /\ reqs' = Moved(p,
       [NewReq("historyDelete") EXCEPT !.pc = "awaitDelete", !.key = key,
                                        !.writes = 1],
       FALSE)
  /\ turn' = AfterDbCall(p)
  /\ started' = started + 1
  /\ UNCHANGED <<dbVars, callVars, token, clock>>

(***************************************************************************)
(* Calls made directly on the interface src/db.js exports.                 *)
(***************************************************************************)
NoCall == [op |-> "none"]

DbKeys == {SearchKey(1), SearchKey(2), LeadKey(1)}

DbPrefixes == {<<>>, SearchPrefix, LeadPrefix, SearchKey(1), <<":">>}

DbValues ==
  {JNull, JBool(FALSE), JNum(0), JStr(<<>>),
   JObj(<<[key |-> "title", value |-> JStr(<<"a">>)]>>)}

\* await db.set(key, value)
CallSet(key, value) ==
  /\ nops < MaxDbOps
  /\ \E ok \in WriteOutcomes :
       /\ DbSet(key, value, ok)
       /\ last' = [op |-> "set", key |-> key, value |-> value, saved |-> ok,
                   threw |-> DbThrows(ok)]
       /\ written' = IF DbThrows(ok) THEN ObjRemove(written, key)
                                     ELSE ObjPut(written, key, value)
  /\ nops' = nops + 1
  /\ UNCHANGED <<replitDb, diskOk, srvVars>>

\* await db.get(key)
CallGet(key) ==
  /\ nops < MaxDbOps
  /\ \E ok \in ReadOutcomes :
       last' = [op |-> "get", key |-> key, threw |-> DbThrows(ok),
                result |-> IF DbThrows(ok) THEN Undefined ELSE DbGet(key)]
  /\ nops' = nops + 1
  /\ UNCHANGED <<dbVars, written, srvVars>>

\* await db.delete(key)
CallDelete(key) ==
  /\ nops < MaxDbOps
  /\ \E ok \in WriteOutcomes :
       /\ DbDelete(key, ok)
       /\ last' = [op |-> "delete", key |-> key, saved |-> ok,
                   threw |-> DbThrows(ok), before |-> Store]
  /\ written' = ObjRemove(written, key)
  /\ nops' = nops + 1
  /\ UNCHANGED <<replitDb, diskOk, srvVars>>

\* await db.list(prefix)
CallList(prefix) ==
  /\ nops < MaxDbOps
  /\ \E ok \in ReadOutcomes :
       IF DbThrows(ok)
       THEN last' = [op |-> "list", prefix |-> prefix, threw |-> TRUE, result |-> <<>>]
       ELSE \E keys \in DbList(prefix) :
              last' = [op |-> "list", prefix |-> prefix, threw |-> FALSE,
                       result |-> keys]
  /\ nops' = nops + 1
  /\ UNCHANGED <<dbVars, written, srvVars>>

(***************************************************************************)
(* Start-up (db.js:82) and the specifications.                             *)
(***************************************************************************)
\* The stores after start-up from one of the disk states in files, with
\* the hosted service holding one of the documents in docs.
InitDb(files, docs) ==
  /\ replitDb \in BOOLEAN
  /\ diskOk \in (IF replitDb THEN {TRUE} ELSE BOOLEAN)
  /\ \E f \in (IF replitDb THEN {AbsentFile} ELSE files) :
       /\ data = LocalDbLoad(f, diskOk)[1]
       /\ file = LocalDbLoad(f, diskOk)[2]
  /\ remote \in (IF replitDb THEN docs ELSE {<<>>})

InitServer ==
  /\ clock = 1
  /\ reqs = [p \in Procs |-> NoReq]
  /\ turn = 0
  /\ started = 0

InitCalls ==
  /\ last = NoCall
  /\ nops = 0
  /\ written = <<>>

\* The lead and history requests.
Init ==
  /\ InitDb({AbsentFile, ValidFile(OldDoc)}, {<<>>, OldDoc})
  /\ InitCalls
  /\ InitServer
  /\ token = JStr(<<"k">>)

Next ==
  \/ Tick
  \/ \E p \in Procs, lead \in LeadBodies : PostLeadsSave(p, lead)
  \/ \E p \in Procs : SetReturns(p)
  \/ \E p \in Procs, key \in KeySet(Store) \cup {AbsentKey} : PostLeadsDelete(p, key)
  \/ \E p \in Procs, title \in Titles : PostDeleteByTitle(p, title)
  \/ \E p \in Procs : ListReturns(p)
  \/ \E p \in Procs : GetReturns(p)
  \/ \E p \in Procs : DeleteReturns(p)

Spec == Init /\ [][Next]_vars

\* The search requests.
InitSearch ==
  /\ InitDb({AbsentFile}, {<<>>})
  /\ InitCalls
  /\ InitServer
  /\ token \in Tokens

NextSearch ==
  \/ Tick
  \/ \E p \in Procs, form \in Forms :
       PostSearch(p, form.keyword, form.city, form.state)
  \/ \E p \in Procs : ActorCallReturns(p)
  \/ \E p \in Procs : ListItemsReturns(p)
  \/ \E p \in Procs : SetReturns(p)

SpecSearch == InitSearch /\ [][NextSearch]_vars

\* The store's interface, called directly.
InitStore ==
  /\ InitDb({AbsentFile, ValidFile(OldDoc)}, {<<>>, OldDoc})
  /\ InitCalls
  /\ InitServer
  /\ token = JStr(<<"k">>)

\* The disk starts or stops accepting writes.
DiskChanges ==
  /\ ~replitDb
  /\ diskOk' = ~diskOk
  /\ UNCHANGED <<replitDb, data, file, remote, callVars, srvVars>>

NextStore ==
  \/ DiskChanges
  \/ \E key \in DbKeys, value \in DbValues : CallSet(key, value)
  \/ \E key \in DbKeys \cup {LeadKey(0)} : CallGet(key)
  \/ \E key \in DbKeys \cup {LeadKey(0)} : CallDelete(key)
  \/ \E prefix \in DbPrefixes : CallList(prefix)

SpecStore == InitStore /\ [][NextStore]_vars

\* What earlier requests left in the store: two searches, and between
\* them a lead that was saved as the clock moved from 0 to 1.
StoredDoc ==
  <<[key |-> SearchKey(0),
     value |-> SearchEntry(FilledField, FilledField, FilledField, <<>>, 0)],
    [key |-> LeadKey(0),
     value |-> LeadEntry(JObj(<<[key |-> "title", value |-> JStr(<<"a">>)]>>), 1)],
    [key |-> SearchKey(1),
     value |-> SearchEntry(FilledField, FilledField, FilledField, <<>>, 1)]>>

\* The bodies of the leads saved: one that has a field named key, one
\* whose title is the name __proto__.
ListedBodies ==
  {JObj(<<[key |-> "title", value |-> JStr(<<"a">>)],
          [key |-> "key", value |-> JStr(<<"x">>)]>>),
   JObj(<<[key |-> "title", value |-> JStr(ProtoName)]>>)}

\* The keys the history routes are called with.
HistoryKeys == {SearchKey(0), LeadKey(0), AbsentKey}

\* The listings, the history routes and the saving of leads.
InitListing ==
  /\ InitDb({ValidFile(StoredDoc)}, {StoredDoc})
  /\ InitCalls
  /\ InitServer
  /\ token = JStr(<<"k">>)

NextListing ==
  \/ \E p \in Procs, lead \in ListedBodies : PostLeadsSave(p, lead)
  \/ \E p \in Procs : SetReturns(p)
  \/ \E p \in Procs, kind \in ListingKinds : GetListing(p, kind)
  \/ \E p \in Procs : KeysReturn(p)
  \/ \E p \in Procs : EntryReturns(p)
  \/ \E p \in Procs, key \in HistoryKeys : GetHistoryEntry(p, key)
  \/ \E p \in Procs : ViewReturns(p)
  \/ \E p \in Procs, key \in HistoryKeys : PostHistoryDelete(p, key)
  \/ \E p \in Procs : DeleteReturns(p)

SpecListing == InitListing /\ [][NextListing]_vars

\* Searches and history deletes side by side on the local backend: a
\* search waits for the scraper while other requests write.
InitConcurrent ==
  /\ InitDb({AbsentFile}, {<<>>})
  /\ ~replitDb
  /\ InitCalls
  /\ InitServer
  /\ token = JStr(<<"k">>)

NextConcurrent ==
  \/ Tick
  \/ \E p \in Procs : PostSearch(p, FilledField, FilledField, FilledField)
  \/ \E p \in Procs : ActorCallReturns(p)
  \/ \E p \in Procs : ListItemsReturns(p)
  \/ \E p \in Procs : SetReturns(p)
  \/ \E p \in Procs, key \in KeySet(Store) : PostHistoryDelete(p, key)
  \/ \E p \in Procs : DeleteReturns(p)

SpecConcurrent == InitConcurrent /\ [][NextConcurrent]_vars

\* Two leads of the same title, saved by earlier requests.
TwoLeads ==
  <<[key |-> LeadKey(0),
     value |-> LeadEntry(JObj(<<[key |-> "title", value |-> JStr(<<"a">>)]>>), 0)],
    [key |-> LeadKey(1),
     value |-> LeadEntry(JObj(<<[key |-> "title", value |-> JStr(<<"a">>)]>>), 1)]>>

\* Delete-by-title requests alone, on a store that holds the two leads.
InitUnsave ==
  /\ InitDb({ValidFile(TwoLeads)}, {TwoLeads})
  /\ InitCalls
  /\ InitServer
  /\ token = JStr(<<"k">>)

NextUnsave ==
  \/ \E p \in Procs, title \in Titles : PostDeleteByTitle(p, title)
  \/ \E p \in Procs : ListReturns(p)
  \/ \E p \in Procs : GetReturns(p)
  \/ \E p \in Procs : DeleteReturns(p)

SpecUnsave == InitUnsave /\ [][NextUnsave]_vars

\* Start-up of the local backend (db.js:22-49 and 82) on a disk that has
\* no file or a file that cannot be parsed, and the calls made afterwards.
InitStartup ==
  /\ replitDb = FALSE
  /\ diskOk \in BOOLEAN
  /\ remote = <<>>
  /\ \E f \in {AbsentFile, CorruptFile} :
       /\ data = LocalDbLoad(f, diskOk)[1]
       /\ file = LocalDbLoad(f, diskOk)[2]
       /\ last = [op |-> "load", found |-> f.state, saved |-> diskOk]
  /\ nops = 0
  /\ written = <<>>
  /\ InitServer
  /\ token = JStr(<<"k">>)

SpecStartup == InitStartup /\ [][NextStore]_vars

(***************************************************************************)
(* The result normaliser, applied to raw items.                            *)
(***************************************************************************)
\* The properties a raw item of the scraper may carry.  A present property
\* may hold a falsy value (an empty string, an empty list, zero).
RawProps ==
  {[key |-> "title", value |-> JStr(<<"t">>)],
   [key |-> "title", value |-> JStr(<<>>)],
   [key |-> "phone", value |-> JStr(<<"5">>)],
   [key |-> "website", value |-> JStr(<<"w", " ", "o", "@", "s", ".", "c", "o">>)],
   [key |-> "email", value |-> JStr(<<"e">>)],
   [key |-> "email", value |-> JStr(<<>>)],
   [key |-> "emails", value |-> JArr(<<JStr(<<"m">>), JStr(<<"n">>)>>)],
   [key |-> "emails", value |-> JArr(<<>>)],
   [key |-> "categoryName", value |-> JStr(<<"c">>)],
   [key |-> "categories", value |-> JArr(<<JStr(<<"p">>)>>)],
   [key |-> "categories", value |-> JArr(<<>>)],
   [key |-> "address", value |-> JStr(<<"a", "@", "b", ".", "c", "d", "1">>)],
   [key |-> "city", value |-> JStr(<<"y">>)],
   [key |-> "state", value |-> JStr(<<"z">>)],
   [key |-> "totalScore", value |-> JNum(4)],
   [key |-> "totalScore", value |-> JNum(0)],
   [key |-> "reviewsCount", value |-> JNum(7)],
   [key |-> "url", value |-> JStr(<<"u">>)],
   [key |-> "placeId", value |-> JStr(<<"i">>)]}

\* The raw items of at most MaxProps properties, in every order.
RawObjects ==
  {JObj(ps) : ps \in {q \in SeqsUpTo(RawProps, MaxProps) :
                        \A i, j \in 1..Len(q) : i # j => q[i].key # q[j].key}}

\* The submitted city and state.
Places == {JStr(<<" ", "p", " ">>), JStr(<<"q">>)}

\* A raw item comes back from the scraper for a search of city and state.
InitNormalize ==
  /\ InitDb({AbsentFile}, {<<>>})
  /\ ~replitDb /\ diskOk
  /\ InitServer
  /\ token = JStr(<<"k">>)
  /\ nops = 0
  /\ written = <<>>
  /\ \E item \in RawObjects, place \in Places :
       last = [op |-> "item", item |-> item, city |-> place, state |-> place]

\* The map of server.js:82-95 applied to the item.
CallNormalize ==
  /\ last.op = "item"
  /\ last' = [last EXCEPT !.op = "normalize"] @@
               [result |-> Normalize(last.item, last.city, last.state)]
  /\ UNCHANGED <<dbVars, nops, written, srvVars>>

NextNormalize == CallNormalize

SpecNormalize == InitNormalize /\ [][NextNormalize]_vars



(***************************************************************************)
(* The claims about the store's interface, checked under SpecStore.        *)
(***************************************************************************)
\* p is a prefix of key, said without StartsWith.
IsPrefixOf(p, key) == \E n \in 0..Len(key) : SubSeq(key, 1, n) = p

SeqToSet(q) == {q[i] : i \in 1..Len(q)}

\* C1: round trip.  A get of a key returns the value of the last set of
\* that key, when no set or delete of the key came after it, whatever the
\* value (0, "", false and null included).
C1_RoundTrip ==
  (last.op = "get" /\ ~last.threw /\ ObjHas(written, last.key))
    => last.result = ObjGet(written, last.key)

\* C3: local backend.  When set(key, value) has returned, the document on
\* disk maps key to value and equals the in-memory mapping, also when the
\* write to the file failed.
C3_SetIsDurable ==
  (~replitDb /\ last.op = "set")
    => /\ file.state = "valid"
       /\ ObjHas(file.doc, last.key)
       /\ ObjGet(file.doc, last.key) = last.value
       /\ file.doc = data

\* C8: list(prefix) returns exactly the keys of the store that start with
\* prefix, each once; the empty prefix returns every key; list("search:")
\* holds no lead key and list("lead:") no search key.
C8_ListByPrefix ==
  (last.op = "list" /\ ~last.threw)
    => /\ SeqToSet(last.result) =
            {key \in KeySet(Store) : IsPrefixOf(last.prefix, key)}
       /\ Cardinality(SeqToSet(last.result)) = Len(last.result)
       /\ last.prefix = <<>> => SeqToSet(last.result) = KeySet(Store)
       /\ last.prefix = SearchPrefix =>
            \A key \in SeqToSet(last.result) : ~IsPrefixOf(LeadPrefix, key)
       /\ last.prefix = LeadPrefix =>
            \A key \in SeqToSet(last.result) : ~IsPrefixOf(SearchPrefix, key)

\* C8's case: list("search:") returned two search keys while the store
\* also held a lead.
C8_Witness ==
  /\ last.op = "list" /\ ~last.threw
  /\ last.prefix = SearchPrefix
  /\ Len(last.result) = 2
  /\ \E key \in KeySet(Store) : IsPrefixOf(LeadPrefix, key)

\* C9: delete(key) of a key the store does not hold leaves the store as it
\* was (the same keys, every key its value) and, on the local backend,
\* cannot fail; after any delete that returned, the key is absent and the
\* other keys are as before, so that a second delete changes nothing.
C9_DeleteAbsent ==
  (last.op = "delete")
    => /\ ~ObjHas(last.before, last.key) =>
            /\ ~replitDb => ~last.threw
            /\ Store = last.before
       /\ ~last.threw =>
            /\ KeySet(Store) = KeySet(last.before) \ {last.key}
            /\ \A key \in KeySet(Store) :
                 ObjGet(Store, key) = ObjGet(last.before, key)

\* C9's case: a delete of an absent key returned, the store not empty.
C9_Witness ==
  /\ last.op = "delete" /\ ~last.threw
  /\ ~ObjHas(last.before, last.key)
  /\ Len(last.before) > 0


(***************************************************************************)
(* The claims about the search requests, checked under SpecSearch.         *)
(***************************************************************************)
\* A form field is blank: absent, or nothing but white space.
IsBlankField(f) ==
  IF f.type = "undefined" THEN TRUE ELSE \A i \in 1..Len(f.s) : f.s[i] = " "

\* The names of the blank fields of request r, in the order of the form.
BlankNames(r) ==
  LET named == <<[name |-> "Keyword", f |-> r.keyword],
                 [name |-> "City", f |-> r.city],
                 [name |-> "State", f |-> r.state]>>
      blank == SelectSeq(named, LAMBDA e : IsBlankField(e.f))
  IN [i \in 1..Len(blank) |-> blank[i].name]

IsSearch(r) == r.kind = "search"

IsErrorPage(r, error) == r.response.view = "error" /\ r.response.error = error

\* The error pages of POST /search.
ErrorSummaries ==
  {"Missing required fields", "Apify API token not configured",
   "Invalid Apify API token", "Insufficient Apify credits",
   "An error occurred while searching."}

\* C4: a search with valid fields ends in exactly one of two ways: the
\* results page with the key of a Search entry that the store took and
\* holds, whose resultCount is the length of its results; or an error page
\* of a known class with no entry persisted.
C4_SearchOutcome ==
  \A p \in Procs :
    LET r == reqs[p] IN
    (IsSearch(r) /\ r.pc = "done" /\ BlankNames(r) = <<>>)
      => \/ /\ r.response.view = "results"
            /\ r.persisted
            /\ r.response.searchKey = r.key
            /\ ObjHas(Store, r.key)
            /\ Prop(ObjGet(Store, r.key), "results") = JArr(r.response.results)
            /\ Prop(ObjGet(Store, r.key), "resultCount")
                 = JNum(Len(r.response.results))
         \/ /\ r.response.view = "error"
            /\ r.response.error \in ErrorSummaries
            /\ ~r.persisted

\* C4's case: a search ended with a results page that has a result.
C4_Witness ==
  \E p \in Procs :
    /\ IsSearch(reqs[p]) /\ reqs[p].pc = "done"
    /\ reqs[p].response.view = "results"
    /\ Len(reqs[p].response.results) > 0

\* C5: a search reports as missing exactly its blank fields, in the order
\* Keyword, City, State; when there is one, the request ends there, with
\* no call to the scraper and no write to the store.
C5_MissingFields ==
  \A p \in Procs :
    LET r == reqs[p] IN
    IsSearch(r) =>
      IF Len(BlankNames(r)) > 0
      THEN /\ r.pc = "done"
           /\ IsErrorPage(r, "Missing required fields")
           /\ r.response.fields = BlankNames(r)
           /\ r.invoked = 0 /\ r.writes = 0 /\ ~r.persisted
      ELSE ~IsErrorPage(r, "Missing required fields")

\* C5's case: a form whose keyword and state are white space only.
C5_Witness ==
  \E p \in Procs :
    /\ IsSearch(reqs[p])
    /\ reqs[p].keyword = JStr(<<" ">>)
    /\ reqs[p].city = FilledField
    /\ reqs[p].response.view = "error"
    /\ reqs[p].response.fields = <<"Keyword", "State">>

\* C6: a failure caught by the search is reported by its class alone: the
\* authentication page for a 401, the credits page for a 402, and for any
\* other failure the generic page with the raw message.
C6_ErrorClass ==
  \A p \in Procs :
    LET r == reqs[p] IN
    (IsSearch(r) /\ r.pc = "done" /\ r.failure.from # "none")
      => CASE r.failure.statusCode = 401 ->
                IsErrorPage(r, "Invalid Apify API token")
           [] r.failure.statusCode = 402 ->
                IsErrorPage(r, "Insufficient Apify credits")
           [] OTHER ->
                /\ IsErrorPage(r, "An error occurred while searching.")
                /\ r.response.message = r.failure.message

\* C7: with the token absent or the placeholder, a search with valid
\* fields ends with the configuration error, with no call to the scraper
\* and no write to the store.
C7_NotConfigured ==
  \A p \in Procs :
    LET r == reqs[p] IN
    (/\ IsSearch(r)
     /\ BlankNames(r) = <<>>
     /\ token = Undefined \/ token = JStr(PlaceholderToken))
      => /\ r.pc = "done"
         /\ IsErrorPage(r, "Apify API token not configured")
         /\ r.invoked = 0 /\ r.writes = 0 /\ ~r.persisted

\* C7's case: the placeholder token and a search with valid fields.
C7_Witness ==
  \E p \in Procs :
    /\ IsSearch(reqs[p]) /\ BlankNames(reqs[p]) = <<>>
    /\ token = JStr(PlaceholderToken)
    /\ reqs[p].pc = "done"

(***************************************************************************)
(* The claims about the leads, checked under Spec.                         *)
(***************************************************************************)
\* C2: a save (or a search) that the store took created its entry under a
\* key the store did not hold, so that it overwrote nothing.
C2_FreshKey ==
  \A p \in Procs :
    (reqs[p].pc = "done" /\ reqs[p].persisted) => reqs[p].fresh

TitleOf(entry) == Prop(entry, "title")

\* The positions in the key list of request r of the leads titled r.title
\* in the store as it was when r arrived.
Matching(r) ==
  {i \in 1..Len(r.keys) : TitleOf(ObjGet(r.before, r.keys[i])) = r.title}

LeadKeys(o) == {key \in KeySet(o) : IsPrefixOf(LeadPrefix, key)}

\* A delete-by-title request that ran alone, every store call answered.
RanAlone(r) ==
  /\ r.kind = "deleteByTitle" /\ r.pc = "done"
  /\ ~r.interfered
  /\ r.failure.from = "none"

\* C10: a delete-by-title that ran alone enumerated the leads of the store
\* (on the local backend in the order of the store); if some lead has the
\* title, it reports success and the store has lost the first such lead
\* of the enumeration and nothing else; if none has, it reports not-found
\* and the store is as it was.
C10_DeleteByTitle ==
  \A p \in Procs :
    LET r == reqs[p] IN
    RanAlone(r) =>
      /\ SeqToSet(r.keys) = LeadKeys(r.before)
      /\ ~replitDb =>
           r.keys = SelectSeq(ObjKeys(r.before), LAMBDA k : IsPrefixOf(LeadPrefix, k))
      /\ IF Matching(r) # {}
         THEN LET gone == r.keys[Min(Matching(r))] IN
              /\ r.response = JsonOk
              /\ KeySet(Store) = KeySet(r.before) \ {gone}
              /\ \A key \in KeySet(Store) :
                   ObjGet(Store, key) = ObjGet(r.before, key)
         ELSE /\ r.response.success = FALSE
              /\ r.response.status = 200
              /\ Store = r.before

\* C10's case: two leads had the title and the request removed one.
C10_Witness ==
  \E p \in Procs :
    /\ RanAlone(reqs[p])
    /\ Cardinality(Matching(reqs[p])) = 2
    /\ reqs[p].response = JsonOk


(***************************************************************************)
(* The claims about the result normaliser, checked under SpecNormalize.    *)
(***************************************************************************)
\* The first of the candidate values that has a value, else the default.
FirstOf(candidates, default) ==
  LET having == SelectSeq(candidates, LAMBDA v : Truthy(v))
  IN IF having = <<>> THEN default ELSE having[1]

Normalized == last.op = "normalize"

\* C13: every field of the record is the first candidate of the raw item
\* that has a value, and otherwise its default: the empty string for
\* title, phone, website, email, category, address, url and placeId, zero
\* for rating and reviewCount, the submitted (trimmed) city and state.
C13_Defaults ==
  Normalized =>
    LET item == last.item
        out == last.result
        Same(field, candidates, default) ==
          Prop(out, field) = FirstOf(candidates, default)
    IN /\ Same("title", <<Prop(item, "title")>>, JStr(<<>>))
       /\ Same("phone", <<Prop(item, "phone")>>, JStr(<<>>))
       /\ Same("website", <<Prop(item, "website")>>, JStr(<<>>))
       /\ ~Truthy(Prop(out, "email")) => Prop(out, "email") = JStr(<<>>)
       /\ Same("category",
               <<Prop(item, "categoryName"),
                 IF Prop(item, "categories").type = "array"
                    /\ Prop(item, "categories").elems # <<>>
                 THEN Prop(item, "categories").elems[1] ELSE Undefined>>,
               JStr(<<>>))
       /\ Same("address", <<Prop(item, "address")>>, JStr(<<>>))
       /\ Same("city", <<Prop(item, "city")>>, JStr(Trim(last.city.s)))
       /\ Same("state", <<Prop(item, "state")>>, JStr(Trim(last.state.s)))
       /\ Same("rating", <<Prop(item, "totalScore")>>, JNum(0))
       /\ Same("reviewCount", <<Prop(item, "reviewsCount")>>, JNum(0))
       /\ Same("url", <<Prop(item, "url")>>, JStr(<<>>))
       /\ Same("placeId", <<Prop(item, "placeId")>>, JStr(<<>>))

\* The characters i..j of text are an email address: a local part, "@", a
\* domain, ".", and two letters or more.
IsEmailAt(text, i, j) ==
  \E at \in {n \in (i + 1)..j : text[n] = "@"} :
    \E dot \in {n \in (at + 2)..(j - 2) : text[n] = "."} :
      /\ \A n \in i..(at - 1) : text[n] \in LocalChars
      /\ \A n \in (at + 1)..(dot - 1) : text[n] \in DomainChars
      /\ \A n \in (dot + 1)..j : text[n] \in Letters

\* The positions of text where an email address starts.
EmailStarts(text) ==
  IF \A n \in 1..Len(text) : text[n] # "@" THEN {}
  ELSE {i \in 1..Len(text) : \E j \in i..Len(text) : IsEmailAt(text, i, j)}

\* C14: the email of the record is the email of the raw item when it has
\* one; otherwise the first of its emails when the list is not empty;
\* otherwise the first email address in the serialised item; otherwise
\* the empty string.
C14_EmailPrecedence ==
  Normalized =>
    LET item == last.item
        email == Prop(last.result, "email")
        emails == Prop(item, "emails")
        text == JsonText(item)
    IN IF Truthy(Prop(item, "email")) THEN email = Prop(item, "email")
       ELSE IF emails.type = "array" /\ emails.elems # <<>>
       THEN email = emails.elems[1]
       ELSE IF EmailStarts(text) # {}
       THEN LET i == Min(EmailStarts(text))
            IN \E j \in i..Len(text) :
                 /\ IsEmailAt(text, i, j)
                 /\ j < Len(text) => ~IsEmailAt(text, i, j + 1)
                 /\ email = JStr(SubSeq(text, i, j))
       ELSE email = JStr(<<>>)

\* C14's case: an item with an empty email and an empty list of emails,
\* whose address was found by the scan.
C14_Witness ==
  /\ Normalized
  /\ Prop(last.item, "email") = JStr(<<>>)
  /\ Prop(last.item, "emails") = Undefined
  /\ Prop(last.result, "email") = JStr(<<"a", "@", "b", ".", "c", "d">>)


(***************************************************************************)
(* The claim about start-up, checked under SpecStartup.                    *)
(***************************************************************************)
\* C16: the local backend started with no file has created the empty
\* document (the disk accepting the write) and holds the empty map;
\* started with a file that cannot be parsed it holds the empty map; and
\* from then on no call fails and the map is the one the set and delete
\* calls made since built from the empty map, which list enumerates.
C16_Startup ==
  /\ last.op = "load" =>
       /\ data = <<>>
       /\ (last.found = "absent" /\ last.saved) => file = ValidFile(<<>>)
       /\ last.found = "corrupt" => file = CorruptFile
  /\ last.op \in {"set", "get", "delete", "list"} => ~last.threw
  /\ data = written
  /\ last.op = "list" =>
       last.result = SelectSeq(ObjKeys(written),
                               LAMBDA key : IsPrefixOf(last.prefix, key))
  /\ (last.op = "get" /\ Truthy(ObjGet(written, last.key))) =>
       last.result = ObjGet(written, last.key)

\* C16's case: the file could not be parsed and the disk refuses writes,
\* and a get returned the value set after start-up.
C16_Witness ==
  /\ file = CorruptFile
  /\ last.op = "get"
  /\ Truthy(last.result)


(***************************************************************************)
(* The claim about concurrent delete-by-title requests, checked under      *)
(* SpecUnsave.                                                             *)
(***************************************************************************)
\* C18: a delete-by-title request that reports success has removed a lead
\* of its own, whatever other requests ran between its steps.
C18_OneLeadEach ==
  \A p \in Procs :
    LET r == reqs[p] IN
    (r.kind = "deleteByTitle" /\ r.pc = "done" /\ r.response = JsonOk)
      => r.removed


(***************************************************************************)
(* The claims about the listings and the history routes, checked under     *)
(* SpecListing.                                                            *)
(***************************************************************************)
\* The entries a finished listing request shows, and the field it sorts by.
Listed(r) == IF r.kind = "history" THEN r.response.searches ELSE r.response.leads

SortField(r) == IF r.kind = "history" THEN "date" ELSE "savedAt"

\* A history or leads listing that has answered with its page.
ShowsList(r) ==
  /\ r.kind \in {"history", "leads"}
  /\ r.pc = "done"
  /\ r.response.view = r.kind

\* C11: in a listing every entry has a strictly later timestamp than the
\* entry after it.
C11_StrictlyDescending ==
  \A p \in Procs :
    LET r == reqs[p] IN
    ShowsList(r) =>
      \A i \in 1..(Len(Listed(r)) - 1) :
        LET t1 == DateValue(Prop(Listed(r)[i], SortField(r)))
            t2 == DateValue(Prop(Listed(r)[i + 1], SortField(r)))
        IN t1 # NaN /\ t2 # NaN /\ t1.n > t2.n

\* The title of the entry stored under key.
StoredTitle(key) == Prop(ObjGet(Store, key), "title")

\* C12: the mapping answered by GET /leads/saved, no other request having
\* changed the store meanwhile, holds a title exactly when a saved lead
\* has it, and sends the title of every saved lead to the key of a saved
\* lead of that title.
C12_SavedIndex ==
  \A p \in Procs :
    LET r == reqs[p] IN
    (r.kind = "saved" /\ r.pc = "done" /\ r.failure.from = "none" /\ ~r.interfered)
      => LET index == r.response.body.props IN
         /\ r.response.status = 200
         /\ \A name \in KeySet(index) :
              \E key \in LeadKeys(Store) : StoredTitle(key) = JStr(name)
         /\ \A key \in LeadKeys(Store) :
              LET title == StoredTitle(key) IN
              title.type = "string" =>
                /\ ObjHas(index, title.s)
                /\ \E other \in LeadKeys(Store) :
                     /\ ObjGet(index, title.s) = JStr(other)
                     /\ StoredTitle(other) = title

\* C15: a listing that no store call failed answers with its page; it
\* shows one entry, with its data, for each key it took, each enumerated
\* key once at most, and it took every key of its kind that was in the
\* store all the while; a key deleted before its fetch is left out.
C15_ListingOmits ==
  \A p \in Procs :
    LET r == reqs[p] IN
    (r.kind \in {"history", "leads"} /\ r.pc = "done" /\ r.failure.from = "none")
      => /\ ShowsList(r)
         /\ Len(Listed(r)) = Len(r.pushed)
         /\ Cardinality(SeqToSet(r.pushed)) = Len(r.pushed)
         /\ SeqToSet(r.pushed) \subseteq SeqToSet(r.keys)
         /\ {key \in r.kept : IsPrefixOf(ListingPrefix(r.kind), key)}
              \subseteq SeqToSet(r.pushed)
         /\ \A i \in 1..Len(Listed(r)) :
              Prop(Listed(r)[i], SortField(r)) # Undefined

\* C15's case: the history page was shown without a search that another
\* request deleted after the keys were enumerated.
C15_Witness ==
  \E p \in Procs :
    /\ ShowsList(reqs[p])
    /\ reqs[p].kind = "history"
    /\ Len(reqs[p].keys) = 2
    /\ Len(Listed(reqs[p])) = 1

\* C17: every entry of a listing has in its key field the key it was
\* fetched under.
C17_KeyField ==
  \A p \in Procs :
    LET r == reqs[p] IN
    ShowsList(r) =>
      \A j \in 1..Len(Listed(r)) :
        \E i \in 1..Len(r.pushed) :
          /\ Listed(r)[j] = r.results[i]
          /\ Prop(Listed(r)[j], "key") = JStr(r.pushed[i])

\* C19: the history delete takes no lead out of the store, and the
\* history view shows no entry stored under a lead key.
C19_HistoryOnlySearches ==
  \A p \in Procs :
    LET r == reqs[p] IN
    /\ (r.kind = "historyDelete" /\ r.pc = "done" /\ r.removed)
         => ~IsPrefixOf(LeadPrefix, r.key)
    /\ (r.kind = "historyView" /\ r.pc = "done" /\ r.response.view = "results")
         => IsPrefixOf(SearchPrefix, r.key)


(***************************************************************************)
(* The claim about concurrent writers, checked under SpecConcurrent.       *)
(***************************************************************************)
\* C20: on the local backend the map holds exactly the keys that requests
\* have set and not deleted since, each with the value set last, and the
\* file, when the disk accepts the writes, is the document of that map.
C20_NoLostUpdate ==
  ~replitDb =>
    /\ KeySet(data) = KeySet(written)
    /\ \A key \in KeySet(written) : ObjGet(data, key) = ObjGet(written, key)
    /\ diskOk => file = ValidFile(data)

\* C20's case: two searches were in flight together and both have stored
\* their entry.
C20_Witness ==
  /\ ~replitDb
  /\ Len(written) = 2
  /\ \E p \in Procs : reqs[p].kind = "search" /\ reqs[p].pc = "done"
                      /\ reqs[p].persisted /\ reqs[p].fresh

=============================================================================
